---- MODULE Spec2Model ----
(***************************************************************************)
(* Model of struct_flags (src/flags.go, the later of the two package       *)
(* versions held in that file: lines 613-1300): the schema walk            *)
(* collectStructFlags, flagSet.UnmarshalFlags on top of the standard       *)
(* flag.FlagSet parser, fillPositionalArgs, Commands.Run and               *)
(* mergeArgsFileArgs.                                                      *)
(*                                                                         *)
(* A Go string is a sequence of one-character strings, so that splitting,  *)
(* prefix tests, case folding and $VAR expansion are computed.             *)
(***************************************************************************)
EXTENDS Integers, Sequences, FiniteSets, TLC

VARIABLES environ, call

vars == <<environ, call>>

\* the element of a one-element set: Only({ e : x \in {v} }) is e for the
\* value of v, computed once as Go computes an assigned expression
Only(S) == CHOOSE r \in S : TRUE

\* ------------------------------------------------------------------ bounds

\* longest token list handed to UnmarshalFlags by the UnmarshalFlags action
MaxTokens == 2

\* longest argument vector handed to Commands.Run, the executable included
MaxArgs == 4

\* most tokens handed to fillPositionalArgs after the flags
MaxRest == 3

\* recursion budget of Commands.Run in the model; the code's recursion is
\* bounded by the vector length plus one file expansion, far below it
RunFuel == 8

\* ----------------------------------------------------------------- strings

HasPrefix(s, p) == Len(s) >= Len(p) /\ SubSeq(s, 1, Len(p)) = p

\* strings.Index for a one-character separator, 1-based, 0 when absent
IndexOf(s, c) ==
  IF \E i \in 1..Len(s) : s[i] = c
  THEN CHOOSE i \in 1..Len(s) : s[i] = c /\ \A j \in 1..(i-1) : s[j] # c
  ELSE 0

From(s, i) == SubSeq(s, i, Len(s))

RECURSIVE Split(_, _)
\* strings.Split(s, c): always at least one element
Split(s, c) ==
  LET i == IndexOf(s, c)
  IN  IF i = 0 THEN <<s>>
      ELSE <<SubSeq(s, 1, i-1)>> \o Split(From(s, i+1), c)

\* strings.SplitN(s, c, 2)
SplitN2(s, c) ==
  LET i == IndexOf(s, c)
  IN  IF i = 0 THEN <<s>> ELSE <<SubSeq(s, 1, i-1), From(s, i+1)>>

Upper == <<"A","B","C","D","E","F","G","H","I","J","K","L","M",
           "N","O","P","Q","R","S","T","U","V","W","X","Y","Z">>
Lower == <<"a","b","c","d","e","f","g","h","i","j","k","l","m",
           "n","o","p","q","r","s","t","u","v","w","x","y","z">>

LowerChar(c) ==
  IF \E i \in 1..26 : Upper[i] = c
  THEN Lower[CHOOSE i \in 1..26 : Upper[i] = c]
  ELSE c

\* strings.ToLower
ToLower(s) == [i \in 1..Len(s) |-> LowerChar(s[i])]

RECURSIVE ReplaceDoubleSpace(_)
\* strings.Replace(s, "  ", " ", -1): non-overlapping, left to right
ReplaceDoubleSpace(s) ==
  IF Len(s) < 2 THEN s
  ELSE IF s[1] = " " /\ s[2] = " " THEN <<" ">> \o ReplaceDoubleSpace(From(s, 3))
  ELSE <<s[1]>> \o ReplaceDoubleSpace(From(s, 2))

Digits == <<"0","1","2","3","4","5","6","7","8","9","a","b","c","d","e","f">>

DigitVal(c) ==
  IF \E i \in 1..16 : Digits[i] = LowerChar(c)
  THEN (CHOOSE i \in 1..16 : Digits[i] = LowerChar(c)) - 1
  ELSE 99

RECURSIVE ParseUint(_, _, _)
\* digits of s in the given base, most significant first; -1 when s holds a
\* character that is no digit of the base
ParseUint(s, base, acc) ==
  IF s = <<>> THEN acc
  ELSE IF DigitVal(s[1]) >= base THEN -1
  ELSE ParseUint(Tail(s), base, acc * base + DigitVal(s[1]))

NoInt == [ok |-> FALSE, val |-> 0]

Signed(s, base, body) ==
  LET neg == s # <<>> /\ s[1] = "-"
      n   == IF body = <<>> THEN -1 ELSE ParseUint(body, base, 0)
  IN  IF n < 0 THEN NoInt ELSE [ok |-> TRUE, val |-> IF neg THEN 0 - n ELSE n]

Unsigned(s) == IF s # <<>> /\ s[1] \in {"-", "+"} THEN Tail(s) ELSE s

\* strconv.ParseInt(s, 10, 64), as readEnv calls it
ParseInt10(s) == Signed(s, 10, Unsigned(s))

\* strconv.ParseInt(s, 0, strconv.IntSize), as the flag package's int value
\* calls it: the base comes from the prefix (0x, 0b, 0o, a leading 0)
ParseInt0(s) ==
  LET u == Unsigned(s)
  IN  IF Len(u) >= 2 /\ u[1] = "0" /\ LowerChar(u[2]) = "x" THEN Signed(s, 16, From(u, 3))
      ELSE IF Len(u) >= 2 /\ u[1] = "0" /\ LowerChar(u[2]) = "b" THEN Signed(s, 2, From(u, 3))
      ELSE IF Len(u) >= 2 /\ u[1] = "0" /\ LowerChar(u[2]) = "o" THEN Signed(s, 8, From(u, 3))
      ELSE IF Len(u) >= 2 /\ u[1] = "0" THEN Signed(s, 8, From(u, 2))
      ELSE Signed(s, 10, u)

TrueWords == { <<"1">>, <<"t">>, <<"T">>, <<"t","r","u","e">>,
               <<"T","R","U","E">>, <<"T","r","u","e">> }
FalseWords == { <<"0">>, <<"f">>, <<"F">>, <<"f","a","l","s","e">>,
                <<"F","A","L","S","E">>, <<"F","a","l","s","e">> }

\* strconv.ParseBool
ParseBool(s) ==
  IF s \in TrueWords THEN [ok |-> TRUE, val |-> TRUE]
  ELSE IF s \in FalseWords THEN [ok |-> TRUE, val |-> FALSE]
  ELSE [ok |-> FALSE, val |-> FALSE]

\* ------------------------------------------------------------------ schema

\* flag and env tag values, and Go field kinds, of the record types used
n_str    == <<"s","t","r">>
n_int    == <<"i","n","t">>
n_bool   == <<"b","o","o","l">>
n_list   == <<"l","i","s","t">>
n_map    == <<"m","a","p">>
n_nest   == <<"n","e","s","t">>
n_squash == <<"-">>
n_s1     == <<"s","1">>
n_s2     == <<"s","2">>
n_file   == <<"[","f","i","l","e","]">>
n_rest   == <<"[","r","e","s","t",".",".",".","]">>
n_num    == <<"[","n","u","m","]">>
n_any    == <<"[","a","n","y","]">>
n_sub    == <<"[","s","u","b","]">>
n_peer   == <<"[","p","e","e","r","]">>
e_BOOL   == <<"B","O","O","L">>
e_x      == <<"x">>
e_b      == <<"b">>
NoTag    == <<>>

Field(flag, env, kind, elem) == [flag |-> flag, env |-> env, kind |-> kind, elem |-> elem]

\* The record types. Flags and Object are the README's and the tests' types
\* (a nested and a squashed use of Object side by side); Pos carries the
\* bracketed positional placeholders; Twice uses Leaf in two sibling fields;
\* Holder holds an interface{} field, whose type has no fields to count;
\* Squashed squashes Object next to a field named like one of Object's; Dup
\* tags two fields with the same placeholder.
StructFields(t) ==
  CASE t = "Flags" ->
         << Field(n_str,    e_x,    "string", ""),
            Field(n_int,    NoTag,  "int",    ""),
            Field(n_bool,   e_BOOL, "bool",   ""),
            Field(n_list,   NoTag,  "list",   ""),
            Field(n_nest,   NoTag,  "struct", "Object"),
            Field(n_squash, NoTag,  "struct", "Object"),
            Field(n_map,    NoTag,  "map",    ""),
            Field(NoTag,    NoTag,  "string", "") >>
    [] t = "Object" ->
         << Field(n_s1, NoTag, "string", ""),
            Field(n_s2, NoTag, "string", "") >>
    [] t = "Pos" ->
         << Field(n_file, NoTag,  "string", ""),
            Field(n_rest, NoTag,  "list",   ""),
            Field(n_num,  e_b,    "int",    ""),
            Field(n_str,  NoTag,  "string", "") >>
    [] t = "Twice" ->
         << Field(n_sub,  NoTag, "struct", "Leaf"),
            Field(n_peer, NoTag, "struct", "Leaf") >>
    [] t = "Leaf" ->
         << Field(n_file, e_x, "string", "") >>
    [] t = "Holder" ->
         << Field(n_str, NoTag, "string", ""),
            Field(n_any, NoTag, "interface", "Any") >>
    [] t = "Squashed" ->
         << Field(n_squash, NoTag, "struct", "Object"),
            Field(n_s1,     NoTag, "string", "") >>
    [] t = "Dup" ->
         << Field(n_file, NoTag, "string", ""),
            Field(n_file, NoTag, "list",   "") >>
    [] t = "Any" -> <<>>

\* reflect.Value.NumField panics on a value that is no struct
IsStruct(t) == t # "Any"

NumField(t) == Len(StructFields(t))

RECURSIVE Zero(_)
\* the zero value of a record type, fields by position
Zero(t) ==
  [i \in 1..NumField(t) |->
     LET f == StructFields(t)[i]
     IN  CASE f.kind = "bool"   -> FALSE
           [] f.kind = "int"    -> 0
           [] f.kind = "struct" -> Zero(f.elem)
           [] OTHER             -> <<>>]

RECURSIVE SetAt(_, _, _)
\* reflect's fieldValue.Set on the field at path (field positions, outermost first)
SetAt(rec, path, v) ==
  IF Len(path) = 1 THEN [rec EXCEPT ![path[1]] = v]
  ELSE [rec EXCEPT ![path[1]] = SetAt(@, Tail(path), v)]

\* ---------------------------------------------------------- the environment

\* os.LookupEnv on the process environment, a function from names to values
LookupEnv(env, k) ==
  IF k \in DOMAIN env THEN [ok |-> TRUE, val |-> env[k]] ELSE [ok |-> FALSE, val |-> <<>>]

\* ------------------------------------------------------------- schema walk

readPositionalArg(arg) ==
  IF Len(arg) > 2 /\ arg[1] = "[" /\ arg[Len(arg)] = "]"
  THEN SubSeq(arg, 2, Len(arg) - 1)
  ELSE <<>>

readFlagInfo(f, prefix) ==
  LET flagTag == Split(f.flag, ",")
  IN  IF flagTag[1] = <<>> THEN [ok |-> FALSE, name |-> <<>>, env |-> <<>>]
      ELSE [ok |-> TRUE, name |-> prefix \o flagTag[1], env |-> f.env]

\* flagInfo.readEnv: the default, overridden by the declared variable when it
\* is present and parses for the kind
readEnv(envName, kind, df, env) ==
  IF envName = <<>> THEN df
  ELSE LET e == LookupEnv(env, envName)
       IN  IF ~e.ok THEN df
           ELSE CASE kind = "string" -> e.val
                  [] kind = "bool"   -> IF ParseBool(e.val).ok THEN ParseBool(e.val).val ELSE df
                  [] kind = "int"    -> IF ParseInt10(e.val).ok THEN ParseInt10(e.val).val ELSE df
                  [] OTHER           -> df

NoPanic == "none"

\* the fields collectStructFlags passes over before looking at their kind
skipsField(info) == ~info.ok \/ readPositionalArg(info.name) = <<>>

childPrefix(name) == IF name # n_squash THEN name \o <<".">> ELSE <<>>

\* fs.String / fs.Bool / fs.Int / fs.Var plus the append to collected: the
\* flag package panics on a name it already holds
register(acc, info, kind, path, df) ==
  IF \E j \in 1..Len(acc.flags) : acc.flags[j].name = info.name
  THEN [acc EXCEPT !.panic = "flag redefined"]
  ELSE [acc EXCEPT !.flags = Append(@, [name |-> info.name, kind |-> kind,
                                          path |-> path, def |-> df])]

\* seen[focus.Type()] = nil
enter(acc, t) == [acc EXCEPT !.seen = @ \cup {t}]

\* the walk without the delete: a type stays in seen once it was visited
leaveSeen(acc, t) == acc

\* delete(seen, focus.Type())
leave(acc, t) == [acc EXCEPT !.seen = @ \ {t}]

RECURSIVE collectStructFlags(_, _, _, _, _, _)
RECURSIVE collectFields(_, _, _, _, _, _, _)

\* acc carries what the Go code shares by reference: the collected flags
\* (one per registered flag of fs), the seen map, and a panic once raised
collectStructFlags(acc, prefix, t, defaults, path, env) ==
  IF acc.panic # NoPanic THEN acc
  ELSE IF t \in acc.seen THEN [acc EXCEPT !.panic = "cycle in flag types"]
  ELSE IF ~IsStruct(t) THEN [acc EXCEPT !.panic = "NumField of non-struct"]
  ELSE Only({ IF after.panic # NoPanic THEN after ELSE leave(after, t) :
                after \in {collectFields(enter(acc, t), prefix, t, defaults, path, env, 1)} })

collectFields(acc, prefix, t, defaults, path, env, i) ==
  IF acc.panic # NoPanic \/ i > NumField(t) THEN acc
  ELSE
    LET f    == StructFields(t)[i]
        info == readFlagInfo(f, prefix)
        here == path \o <<i>>
        next ==
          IF skipsField(info) THEN acc
          ELSE CASE f.kind \in {"string", "bool", "int"} ->
                      register(acc, info, f.kind, here,
                               readEnv(info.env, f.kind, defaults[i], env))
                 [] f.kind \in {"map", "list"} ->
                      register(acc, info, f.kind, here, <<>>)
                 [] f.kind \in {"struct", "interface"} ->
                      collectStructFlags(acc, childPrefix(info.name), f.elem,
                                         defaults[i], here, env)
                 [] OTHER -> acc
    IN  Only({ collectFields(n, prefix, t, defaults, path, env, i + 1) : n \in {next} })

EmptyCollected == [panic |-> NoPanic, flags |-> <<>>, seen |-> {}]

\* ------------------------------------------------------ the flag registry

NoErr == "none"

\* stringArray.Set
stringArraySet(sa, v) == sa \o Split(v, ",")

mapEntry(e) ==
  LET kv == SplitN2(e, "=")
  IN  IF Len(kv) = 1 THEN [key |-> kv[1], value |-> <<>>]
      ELSE [key |-> kv[1], value |-> kv[2]]

\* stringMap.Set
stringMapSet(sm, v) ==
  LET entries == Split(v, ",")
  IN  sm \o [j \in 1..Len(entries) |-> mapEntry(entries[j])]

\* flag.Value.Set of the value registered for the kind
valueSet(kind, slot, v) ==
  CASE kind = "string" -> [ok |-> TRUE, val |-> v]
    [] kind = "bool"   -> ParseBool(v)
    [] kind = "int"    -> ParseInt0(v)
    [] kind = "list"   -> [ok |-> TRUE, val |-> stringArraySet(slot, v)]
    [] kind = "map"    -> [ok |-> TRUE, val |-> stringMapSet(slot, v)]

flagIndex(flags, name) ==
  IF \E j \in 1..Len(flags) : flags[j].name = name
  THEN CHOOSE j \in 1..Len(flags) : flags[j].name = name
  ELSE 0

n_help == <<"h","e","l","p">>
n_h    == <<"h">>
w_true == <<"t","r","u","e">>

parseFail(e, slots) == [err |-> e, slots |-> slots, rest |-> <<>>]

\* the position of the first "=" after the first character of name, 0 if none
valueSep(name) ==
  IF \E j \in 2..Len(name) : name[j] = "="
  THEN CHOOSE j \in 2..Len(name) : name[j] = "=" /\ \A k \in 2..(j-1) : name[k] # "="
  ELSE 0

RECURSIVE fsParse(_, _, _)
\* flag.FlagSet.Parse (parseOne until it stops): the values set so far, the
\* error if any, and fs.Args()
fsParse(flags, slots, args) ==
  IF args = <<>> THEN [err |-> NoErr, slots |-> slots, rest |-> <<>>]
  ELSE
    LET s == Head(args)
    IN  IF Len(s) < 2 \/ s[1] # "-" THEN [err |-> NoErr, slots |-> slots, rest |-> args]
        ELSE
          LET numMinuses == IF s[2] = "-" THEN 2 ELSE 1
              name0      == From(s, numMinuses + 1)
          IN  IF numMinuses = 2 /\ Len(s) = 2
              THEN [err |-> NoErr, slots |-> slots, rest |-> Tail(args)]
              ELSE IF name0 = <<>> \/ name0[1] = "-" \/ name0[1] = "="
              THEN parseFail("bad flag syntax", slots)
              ELSE
                LET eq       == valueSep(name0)
                    hasValue == eq # 0
                    name     == IF hasValue THEN SubSeq(name0, 1, eq - 1) ELSE name0
                    value    == IF hasValue THEN From(name0, eq + 1) ELSE <<>>
                    j        == flagIndex(flags, name)
                IN  IF j = 0
                    THEN IF name = n_help \/ name = n_h
                         THEN parseFail("flag: help requested", slots)
                         ELSE parseFail("flag provided but not defined", slots)
                    ELSE IF flags[j].kind = "bool"
                    THEN LET r == valueSet("bool", slots[j], IF hasValue THEN value ELSE w_true)
                         IN  IF ~r.ok THEN parseFail("invalid boolean value", slots)
                             ELSE Only({ fsParse(flags, set, Tail(args)) :
                                           set \in {[slots EXCEPT ![j] = r.val]} })
                    ELSE IF ~hasValue /\ Len(args) < 2
                    THEN parseFail("flag needs an argument", slots)
                    ELSE LET v    == IF hasValue THEN value ELSE args[2]
                             rest == IF hasValue THEN Tail(args) ELSE Tail(Tail(args))
                             r    == valueSet(flags[j].kind, slots[j], v)
                         IN  IF ~r.ok THEN parseFail("invalid value", slots)
                             ELSE Only({ fsParse(flags, set, rest) :
                                           set \in {[slots EXCEPT ![j] = r.val]} })

RECURSIVE buildMap(_, _)
\* the map setter's loop: m[e.key] = e.value over the collected entries
buildMap(sm, m) ==
  IF sm = <<>> THEN m
  ELSE buildMap(Tail(sm),
                [k \in (DOMAIN m) \cup {Head(sm).key} |->
                   IF k = Head(sm).key THEN Head(sm).value ELSE m[k]])

\* what a flagInfo's set() writes into its field
setterValue(kind, slot) == IF kind = "map" THEN buildMap(slot, <<>>) ELSE slot

RECURSIVE runSetters(_, _, _, _)
\* "build leaves first": the setters run from the last collected to the first
runSetters(flags, slots, dest, i) ==
  IF i = 0 THEN dest
  ELSE runSetters(flags, slots,
                  SetAt(dest, flags[i].path, setterValue(flags[i].kind, slots[i])),
                  i - 1)

\* the setters run on whatever fs.Parse had set when it stopped
setParsedEager(col, p, dest, names) ==
  [panic |-> NoPanic, err |-> p.err,
   dest |-> runSetters(col.flags, p.slots, dest, Len(col.flags)),
   args |-> IF p.err # NoErr THEN <<>> ELSE p.rest, names |-> names]

\* UnmarshalFlags after fs.Parse returned p: the error, or the setters run
setParsed(col, p, dest, names) ==
  IF p.err # NoErr
  THEN [panic |-> NoPanic, err |-> p.err, dest |-> dest, args |-> <<>>, names |-> names]
  ELSE [panic |-> NoPanic, err |-> NoErr,
        dest |-> runSetters(col.flags, p.slots, dest, Len(col.flags)),
        args |-> p.rest, names |-> names]

\* UnmarshalFlags after the walk returned col: fs.Parse on the registered flags
parseAndSet(col, args, dest) ==
  LET names == [j \in 1..Len(col.flags) |-> col.flags[j].name]
  IN  IF col.panic # NoPanic
      THEN [panic |-> col.panic, err |-> NoErr, dest |-> dest, args |-> <<>>, names |-> names]
      ELSE Only({ setParsed(col, p, dest, names) :
                    p \in {fsParse(col.flags, [j \in 1..Len(col.flags) |-> col.flags[j].def],
                                   args)} })

\* flagSet.UnmarshalFlags(args, a) with defaults of record type t and the
\* destination a holding dest: the panic of the walk if any, the error, the
\* destination afterwards and the returned args
UnmarshalFlags(t, defaults, args, dest, env) ==
  Only({ parseAndSet(col, args, dest) :
           col \in {collectStructFlags(EmptyCollected, <<>>, t, defaults, <<>>, env)} })

\* ------------------------------------------------------- positional binding

\* done(): no positional name or no token is left at pos (0-based)
done(positionalArgs, argsAfterFlags, pos) ==
  pos > Len(positionalArgs) - 1 \/ pos > Len(argsAfterFlags) - 1

\* the first field, in declaration order, whose bracketed flag name is argName
\* and whose kind the switch handles; 0 when the inner loop runs out
positionalField(t, argName) ==
  LET hit(i) == LET info == readFlagInfo(StructFields(t)[i], <<>>)
                IN  /\ info.ok
                    /\ readPositionalArg(info.name) = argName
                    /\ StructFields(t)[i].kind \in {"string", "list"}
  IN  IF \E i \in 1..NumField(t) : hit(i)
      THEN CHOOSE i \in 1..NumField(t) : hit(i) /\ \A j \in 1..(i-1) : ~hit(j)
      ELSE 0

\* s := argsAfterFlags[pos]
stringArg(argsAfterFlags, pos) == argsAfterFlags[pos + 1]

\* the slice taken one token late: argsAfterFlags[pos+1:]
sliceArgsLate(argsAfterFlags, pos) == From(argsAfterFlags, pos + 2)

\* the slice that forgets pos: every token again
sliceArgsAll(argsAfterFlags, pos) == argsAfterFlags

\* arr := append([]string{}, argsAfterFlags[pos:]...)
sliceArgs(argsAfterFlags, pos) == From(argsAfterFlags, pos + 1)

RECURSIVE fillFrom(_, _, _, _, _, _)
\* the Args loop of fillPositionalArgs from the a-th positional name on
fillFrom(positionalArgs, a, t, value, argsAfterFlags, pos) ==
  IF a > Len(positionalArgs) \/ done(positionalArgs, argsAfterFlags, pos)
  THEN [value |-> value, remaining |-> sliceArgs(argsAfterFlags, pos)]
  ELSE
    LET i == positionalField(t, positionalArgs[a])
    IN  IF i = 0
        THEN [value |-> value, remaining |-> sliceArgs(argsAfterFlags, pos)]
        ELSE IF StructFields(t)[i].kind = "string"
        THEN fillFrom(positionalArgs, a + 1, t,
                      [value EXCEPT ![i] = stringArg(argsAfterFlags, pos)],
                      argsAfterFlags, pos + 1)
        ELSE [value |-> [value EXCEPT ![i] = sliceArgs(argsAfterFlags, pos)],
              remaining |-> <<>>]

fillPositionalArgs(positionalArgs, t, value, argsAfterFlags) ==
  fillFrom(positionalArgs, 1, t, value, argsAfterFlags, 0)

\* parseCommandFlags after UnmarshalFlags returned u: its error, or the
\* positionals bound into the unmarshalled record
fillUnmarshalled(u, positionalArgs, t) ==
  IF u.panic # NoPanic \/ u.err # NoErr
  THEN [panic |-> u.panic, err |-> u.err, remaining |-> <<>>,
        updatedFlags |-> <<>>, afterFlags |-> <<>>]
  ELSE LET f == fillPositionalArgs(positionalArgs, t, u.dest, u.args)
       IN  [panic |-> NoPanic, err |-> NoErr, remaining |-> f.remaining,
            updatedFlags |-> f.value, afterFlags |-> u.args]

\* parseCommandFlags for a struct-typed defaults instance: the flags are
\* unmarshalled into a fresh zero record, then the positionals are bound
parseCommandFlags(t, commandFlags, positionalArgs, commandArgs, env) ==
  Only({ fillUnmarshalled(u, positionalArgs, t) :
           u \in {UnmarshalFlags(t, commandFlags, commandArgs, Zero(t), env)} })

\* ---------------------------------------------------------------- commands

\* command.Name() for a Command, commandGroup.Name() for a group
Name(c) ==
  IF c.kind = "command" THEN SplitN2(ReplaceDoubleSpace(c.name), " ")[1] ELSE c.name

\* command.PositionalArgs(): a part that is no bracketed placeholder panics
PositionalArgs(c) ==
  LET parts == Split(ReplaceDoubleSpace(c.name), " ")
      rest  == Tail(parts)
  IN  IF \E j \in 1..Len(rest) : readPositionalArg(rest[j]) = <<>>
      THEN [panic |-> TRUE, args |-> <<>>]
      ELSE [panic |-> FALSE, args |-> [j \in 1..Len(rest) |-> readPositionalArg(rest[j])]]

\* ------------------------------------------------------ argument-file load

SpecialVars == {"*", "#", "$", "@", "!", "?", "-",
                "0", "1", "2", "3", "4", "5", "6", "7", "8", "9"}

isShellSpecialVar(c) == c \in SpecialVars

isAlphaNum(c) ==
  \/ c = "_"
  \/ \E i \in 1..10 : Digits[i] = c
  \/ \E i \in 1..26 : Lower[i] = c \/ Upper[i] = c

\* the length of the longest alphanumeric prefix of s
alphaNumRun(s) ==
  IF \E i \in 1..Len(s) : ~isAlphaNum(s[i])
  THEN (CHOOSE i \in 1..Len(s) : ~isAlphaNum(s[i]) /\ \A j \in 1..(i-1) : isAlphaNum(s[j])) - 1
  ELSE Len(s)

\* os.getShellName on the text after a "$" (never empty): the name and the
\* number of characters it takes
getShellName(s) ==
  IF s[1] = "{"
  THEN IF Len(s) > 2 /\ isShellSpecialVar(s[2]) /\ s[3] = "}"
       THEN [name |-> <<s[2]>>, w |-> 3]
       ELSE LET close == IndexOf(Tail(s), "}")
            IN  IF close = 0 THEN [name |-> <<>>, w |-> 1]
                ELSE IF close = 1 THEN [name |-> <<>>, w |-> 2]
                ELSE [name |-> SubSeq(s, 2, close), w |-> close + 1]
  ELSE IF isShellSpecialVar(s[1]) THEN [name |-> <<s[1]>>, w |-> 1]
  ELSE [name |-> SubSeq(s, 1, alphaNumRun(s)), w |-> alphaNumRun(s)]

\* os.Getenv: the empty string for a variable that is not set
Getenv(env, k) == LookupEnv(env, k).val

RECURSIVE ExpandEnv(_, _)
\* os.ExpandEnv: $name and ${name} replaced from the environment
ExpandEnv(s, env) ==
  IF s = <<>> THEN <<>>
  ELSE IF s[1] = "$" /\ Len(s) >= 2
  THEN LET n == getShellName(Tail(s))
           out == IF n.name = <<>> /\ n.w > 0 THEN <<>>
                  ELSE IF n.name = <<>> THEN <<"$">>
                  ELSE Getenv(env, n.name)
       IN  out \o ExpandEnv(From(s, 2 + n.w), env)
  ELSE <<s[1]>> \o ExpandEnv(Tail(s), env)

\* a Setenv that reports success and sets nothing
SetenvDropped(env, k, v) == [ok |-> TRUE, env |-> env]

\* os.Setenv: an empty key, or one holding "=", is refused
Setenv(env, k, v) ==
  IF k = <<>> \/ IndexOf(k, "=") # 0
  THEN [ok |-> FALSE, env |-> env]
  ELSE [ok |-> TRUE, env |-> [x \in (DOMAIN env) \cup {k} |-> IF x = k THEN v ELSE env[x]]]

RECURSIVE applyEnv(_, _)
\* the loop over argFile.Env: kv[1] of an entry without "=" is out of range
applyEnv(entries, env) ==
  IF entries = <<>> THEN [panic |-> NoPanic, err |-> NoErr, env |-> env]
  ELSE LET kv == SplitN2(Head(entries), "=")
       IN  IF Len(kv) < 2
           THEN [panic |-> "index out of range", err |-> NoErr, env |-> env]
           ELSE LET r == Setenv(env, kv[1], ExpandEnv(kv[2], env))
                IN  IF ~r.ok
                    THEN [panic |-> NoPanic,
                          err |-> "failed to apply environment variable", env |-> env]
                    ELSE Only({ applyEnv(Tail(entries), set) : set \in {r.env} })

\* file names and contents of the file system the program reads
f_f1 == <<"f","1">>
f_f2 == <<"f","2">>
f_f4 == <<"f","4">>
c_cmd == <<"c","m","d">>
c_atg == <<"@","g">>
c_atf4 == <<"@","f","4">>
c_atf3 == <<"@","f","3">>
a_strb == <<"-","-","s","t","r","=","$","b">>
v_b1 == <<"b","=","1">>
v_xab == <<"x","=","a","$","b">>

ArgFile(command, args, env) == [command |-> command, args |-> args, env |-> env]

\* ioutil.ReadFile and json.Unmarshal of the file's content; f1 is the tests'
\* argument file, f2 names a command that starts with "@", f4 names itself,
\* f3 has an env entry without "="
readArgFile(filename) ==
  CASE filename = f_f1 ->
         [err |-> NoErr, file |-> ArgFile(<<c_cmd>>, <<a_strb>>, <<v_b1, v_xab>>)]
    [] filename = f_f2 ->
         [err |-> NoErr, file |-> ArgFile(<<c_atg>>, <<>>, <<>>)]
    [] filename = f_f4 ->
         [err |-> NoErr, file |-> ArgFile(<<c_atf4>>, <<>>, <<v_b1>>)]
    [] filename = Tail(c_atf3) ->
         [err |-> NoErr, file |-> ArgFile(<<c_cmd>>, <<>>, <<v_b1, c_cmd>>)]
    [] OTHER ->
         [err |-> "could not open @argfile", file |-> ArgFile(<<>>, <<>>, <<>>)]

\* the context values of one Run: the parent commands and the loaded ArgFile
\* (<<>> for none, <<file>> once loaded)
Background == [parents |-> <<>>, argFile |-> <<>>]

getParentCommands(ctx) == ctx.parents

\* a context that never shows a loaded file
getArgFileUnset(ctx) == <<>>

getArgFile(ctx) == ctx.argFile

\* a context that keeps only the last of the parent names
withLastParent(ctx, parents) == [ctx EXCEPT !.parents = <<parents[Len(parents)]>>]

withParentCommands(ctx, parents) == [ctx EXCEPT !.parents = parents]

\* the tokens after the first one that follows the n parent names
tailAfterNext(args, n) == From(args, n + 4)

\* args[len(parentCommands)+2:], the tokens that followed the @file token
tailAfterFile(args, n) == From(args, n + 3)

mergeArgsFileArgs(filename, ctx, args, env) ==
  LET r == readArgFile(filename)
      e == applyEnv(r.file.env, env)
      ctx2 == [ctx EXCEPT !.argFile = <<r.file>>]
      n == Len(getParentCommands(ctx2))
      fileArgs == [j \in 1..Len(r.file.args) |-> ExpandEnv(r.file.args[j], e.env)]
  IN  IF r.err # NoErr
      THEN [panic |-> NoPanic, err |-> r.err, env |-> env, ctx |-> ctx, args |-> <<>>]
      ELSE IF e.panic # NoPanic \/ e.err # NoErr
      THEN [panic |-> e.panic, err |-> e.err, env |-> e.env, ctx |-> ctx2, args |-> <<>>]
      ELSE [panic |-> NoPanic, err |-> NoErr, env |-> e.env, ctx |-> ctx2,
            args |-> SubSeq(args, 1, n + 1) \o r.file.command \o fileArgs
                     \o tailAfterFile(args, n)]

\* ----------------------------------------------------------------- dispatch

\* the validate:"required" fields of a record type, by position
Required(t) == IF t = "Pos" THEN {1} ELSE {}

\* ValidateStructFields: the default validator's "required" rule
ValidateStructFields(t, arg) == \A i \in Required(t) : arg[i] # Zero(t)[i]

Result(kind, detail, st) ==
  [kind |-> kind, detail |-> detail, env |-> st.env, reads |-> st.reads,
   path |-> st.path, executed |-> <<>>, parents |-> <<>>, argFile |-> <<>>,
   remaining |-> <<>>, flags |-> <<>>, usage |-> <<>>, args |-> <<>>,
   afterFlags |-> <<>>, positional |-> <<>>]

\* Commands.usage: args[0] heads the text, then one line per entry
usage(cs, args, st) ==
  IF args = <<>> THEN Result("panic", "index out of range", st)
  ELSE IF \E i \in 1..Len(cs) : Name(cs[i]) = <<>>
  THEN Result("panic", "has no ICommand.Name()", st)
  ELSE [Result("usage", "flag: help requested", st) EXCEPT
          !.usage = [i \in 1..Len(cs) |-> Name(cs[i])], !.args = args]

\* the test without its second half: every "@" token asks for a file
argFileAlways(currentCommandName, ctx) == HasPrefix(currentCommandName, <<"@">>)

\* "Argfile requested"
argFileRequested(currentCommandName, ctx) ==
  HasPrefix(currentCommandName, <<"@">>) /\ getArgFile(ctx) = <<>>

RECURSIVE rangeCommands(_, _, _, _)
\* the loop over cs: a matching Command is remembered and the loop goes on
\* (the break leaves the switch), a matching CommandGroup ends it
rangeCommands(cs, currentCommandName, i, command) ==
  IF i > Len(cs) THEN [group |-> 0, command |-> command]
  ELSE IF ToLower(Name(cs[i])) = currentCommandName
  THEN IF cs[i].kind = "command"
       THEN rangeCommands(cs, currentCommandName, i + 1, i)
       ELSE [group |-> i, command |-> command]
  ELSE rangeCommands(cs, currentCommandName, i + 1, command)

\* the tail of Run with the closure calling executeFn before anything else
executeUnvalidated(c, at, p) ==
  [at EXCEPT !.remaining = p.remaining, !.flags = p.updatedFlags,
             !.afterFlags = p.afterFlags, !.executed = <<c.id>>]

\* the tail of Run once parseCommandFlags returned p: its error, or the
\* command executed (validation first) on the parsed record
execute(c, at, p) ==
  LET parsed == [at EXCEPT !.remaining = p.remaining, !.flags = p.updatedFlags,
                           !.afterFlags = p.afterFlags]
  IN  IF p.panic # NoPanic THEN [at EXCEPT !.kind = "panic", !.detail = p.panic]
      ELSE IF p.err # NoErr THEN [at EXCEPT !.kind = "error", !.detail = p.err]
      ELSE IF ~ValidateStructFields(c.type, p.updatedFlags)
      THEN [parsed EXCEPT !.kind = "error", !.detail = "validation failed"]
      ELSE IF c.fails
      THEN [parsed EXCEPT !.kind = "error", !.detail = "execute failed",
                          !.executed = <<c.id>>]
      ELSE [parsed EXCEPT !.executed = <<c.id>>]

\* the tail of Run for the matched Command c: the positional names, then
\* parseCommandFlags on args[minArgs:], then Execute
runCommand(c, ctx, args, minArgs, st) ==
  LET pa == PositionalArgs(c)
      at == [Result("ok", "", st) EXCEPT
               !.parents = getParentCommands(ctx), !.argFile = getArgFile(ctx),
               !.args = args, !.positional = pa.args]
  IN  IF pa.panic THEN [at EXCEPT !.kind = "panic", !.detail = "invalid positional args"]
      ELSE Only({ execute(c, at, p) :
                    p \in {parseCommandFlags(c.type, c.defaults, pa.args,
                                             From(args, minArgs + 1), st.env)} })

RECURSIVE Run(_, _, _, _, _)
\* Commands.Run; st carries the process environment, the files read and the
\* forest entries dispatched to so far
Run(cs, ctx, args, st, fuel) ==
  LET parentCommands == getParentCommands(ctx)
      minArgs == Len(parentCommands) + 2
  IN  IF fuel = 0 THEN Result("diverged", "", st)
      ELSE IF Len(args) < minArgs THEN usage(cs, args, st)
      ELSE
        LET currentCommandName == ToLower(args[Len(parentCommands) + 2])
        IN  IF argFileRequested(currentCommandName, ctx)
            THEN LET filename == Tail(currentCommandName)
                     m   == mergeArgsFileArgs(filename, ctx, args, st.env)
                     st2 == [st EXCEPT !.env = m.env, !.reads = Append(@, filename)]
                 IN  IF m.panic # NoPanic THEN Result("panic", m.panic, st2)
                     ELSE IF m.err # NoErr THEN Result("error", m.err, st2)
                     ELSE Only({ Run(cs, ctx2, mergedArgs, st3, fuel - 1) :
                                   ctx2 \in {m.ctx}, mergedArgs \in {m.args}, st3 \in {st2} })
            ELSE
              LET sel == rangeCommands(cs, currentCommandName, 1, 0)
              IN  IF sel.group # 0
                  THEN Only({ Run(commands, sub, args, st2, fuel - 1) :
                                commands \in {cs[sel.group].commands},
                                sub \in {withParentCommands(ctx,
                                            Append(parentCommands, currentCommandName))},
                                st2 \in {[st EXCEPT !.path = Append(@, sel.group)]} })
                  ELSE IF sel.command = 0 \/ Name(cs[sel.command]) = <<>>
                  THEN usage(cs, args, st)
                  ELSE Only({ runCommand(c, ctx, args, minArgs, st2) :
                                c \in {cs[sel.command]},
                                st2 \in {[st EXCEPT !.path = Append(@, sel.command)]} })

\* ------------------------------------------------------------------ inputs

SeqsUpTo(S, n) == UNION { [1..k -> S] : k \in 0..n }

w_default == <<"d","e","f","a","u","l","t">>
w_maybe   == <<"m","a","y","b","e">>
w_a == <<"a">>
w_b == <<"b">>
w_c == <<"c">>
w_1 == <<"1">>
w_7 == <<"7">>
w_z == <<"z">>
w_v == <<"v">>

\* the defaults instances handed to NewFlagSet / NewCommand
FlagsDefaults ==
  << w_default, 2, TRUE, <<w_a>>, <<w_default, <<>>>>, <<<<>>, <<>>>>,
     [k \in {w_a} |-> w_1], <<>> >>

PosDefaults == << w_default, <<w_a>>, 4, w_default >>

DefaultsOf(t) ==
  CASE t = "Flags" -> {Zero(t), FlagsDefaults}
    [] t = "Pos"   -> {Zero(t), PosDefaults}
    [] OTHER       -> {Zero(t)}

t_list12 == <<"-","l","i","s","t","=","1",",","2">>
t_list3  == <<"-","l","i","s","t","=","3">>
t_mapa1  == <<"-","m","a","p","=","a","=","1">>
t_mapa2b == <<"-","m","a","p","=","a","=","2",",","b">>
t_str    == <<"-","-","s","t","r","=","t","e","s","t">>
t_bool   == <<"-","b","o","o","l">>
t_arg1   == <<"a","r","g","1">>
t_file   == <<"-","[","f","i","l","e","]","=","f">>
t_rest   == <<"-","[","r","e","s","t",".",".",".","]","=","p",",","q">>
t_num3   == <<"-","[","n","u","m","]","=","3">>
t_numz   == <<"-","[","n","u","m","]","=","z">>
t_end    == <<"-","-">>
t_subf   == <<"-","[","s","u","b","]",".","[","f","i","l","e","]","=","f">>

TokensOf(t) ==
  CASE t = "Flags" -> {t_list12, t_list3, t_mapa1, t_mapa2b, t_str, t_bool, t_arg1}
    [] t = "Pos"   -> {t_file, t_rest, t_num3, t_numz, t_end, t_arg1, t_str}
    [] t = "Twice" -> {t_subf, t_arg1}
    [] OTHER       -> {t_arg1}

FlagTypes == {"Flags", "Pos", "Twice", "Holder", "Squashed", "Dup"}

\* what the tests and the shell put into the environment
FlagEnvChoices == { <<e_BOOL, w_true>>, <<e_BOOL, w_maybe>>, <<e_x, w_v>>,
                    <<e_b, w_7>>, <<e_b, w_z>> }

RunEnvChoices == { <<e_b, w_7>> }

\* ------------------------------------------------------------- the forests

\* NewCommand: the one name it refuses is the empty string (executeFn is
\* taken to be a function of the right type); fails says whether executeFn
\* returns an error
Command(id, name, t, defaults, fails) ==
  IF name = <<>> THEN [kind |-> "panic", detail |-> "'name' name must be provided"]
  ELSE [kind |-> "command", id |-> id, name |-> name, type |-> t,
        defaults |-> defaults, fails |-> fails]

\* NewCommandGroup: any name is taken
CommandGroup(name, commands) == [kind |-> "group", name |-> name, commands |-> commands]

c_x     == <<"x">>
c_X     == <<"X">>
c_xpos  == <<"x"," ","[","f","i","l","e","]"," ","[","r","e","s","t",".",".",".","]">>
c_sub   == <<"s","u","b">>
c_more  == <<"m","o","r","e">>
c_exe   == <<"e","x","e">>
c_atf1  == <<"@","f","1">>
\* a file token written with a capital letter
c_atF2  == <<"@","F","2">>

Forest(name) ==
  CASE name = "A" ->
         << Command("first", c_xpos, "Pos", PosDefaults, FALSE),
            Command("second", c_X, "Flags", FlagsDefaults, FALSE),
            CommandGroup(c_more, << Command("sub", c_sub, "Flags", Zero("Flags"), FALSE),
                                   Command("deep-at", c_atg, "Flags", Zero("Flags"), TRUE) >>),
            Command("at", c_atg, "Flags", Zero("Flags"), FALSE),
            Command("cmd", c_cmd, "Flags", Zero("Flags"), FALSE) >>
    [] name = "B" ->
         << CommandGroup(c_x, << Command("inner", c_sub \o <<" ">> \o n_file,
                                         "Pos", Zero("Pos"), FALSE) >>),
            Command("late", c_x, "Flags", Zero("Flags"), FALSE),
            CommandGroup(c_more,
              << CommandGroup(c_sub,
                   << Command("leaf", c_x, "Flags", Zero("Flags"), FALSE) >>) >>) >>
    [] name = "C" ->
         << Command("early", c_x, "Pos", PosDefaults, FALSE),
            CommandGroup(c_X, << Command("inner", c_sub, "Flags", Zero("Flags"), FALSE) >>) >>
    [] name = "D" ->
         << CommandGroup(<<>>, << Command("inner", c_sub, "Flags", Zero("Flags"), FALSE) >>),
            Command("blank", <<" ">> \o c_x, "Flags", Zero("Flags"), FALSE),
            Command("last", c_x, "Flags", Zero("Flags"), FALSE) >>

ForestNames == {"A", "B", "C", "D"}

RunTokens == {c_more, c_X, c_sub, c_atf1, c_atF2, c_atf3, c_atf4, w_a, t_num3}

PositionalNames == { c_xpos, c_x,
                     <<"x"," ","[","f","i","l","e","]">>,
                     <<"x"," ","[","r","e","s","t",".",".",".","]"," ","[","f","i","l","e","]">>,
                     <<"x"," "," ","[","f","i","l","e","]"," ","[","n","u","m","]">>,
                     <<"x"," ","[","f","i","l","e","]"," ","[","f","i","l","e","]">> }

RestTokens == {w_a, w_b, w_c}

\* ------------------------------------------------------------- the actions

Idle == [op |-> "idle"]

Init ==
  /\ environ = <<>>
  /\ call = Idle

\* os.Setenv by the caller of the package (the tests, the shell)
OsSetenv(S) ==
  /\ call = Idle
  /\ \E kv \in S :
       /\ LookupEnv(environ, kv[1]).val # kv[2]
       /\ environ' = Setenv(environ, kv[1], kv[2]).env
  /\ UNCHANGED call

\* os.Unsetenv by the caller of the package
OsUnsetenv(S) ==
  /\ call = Idle
  /\ \E kv \in S :
       /\ kv[1] \in DOMAIN environ
       /\ environ' = [x \in (DOMAIN environ) \ {kv[1]} |-> environ[x]]
  /\ UNCHANGED call

\* fs := NewFlagSet(name, &defaults); fs.UnmarshalFlags(tokens, &T{})
CallUnmarshalFlags ==
  /\ call = Idle
  /\ \E t \in FlagTypes : \E defaults \in DefaultsOf(t) :
       \E tokens \in SeqsUpTo(TokensOf(t), MaxTokens) :
         call' = [op |-> "UnmarshalFlags", type |-> t, defaults |-> defaults,
                  tokens |-> tokens,
                  res |-> UnmarshalFlags(t, defaults, tokens, Zero(t), environ)]
  /\ UNCHANGED environ

\* the tail of Run for a matched command: parseCommandFlags(flags,
\* command.PositionalArgs(), args[minArgs:])
CallParseCommandFlags ==
  /\ call = Idle
  /\ \E name \in PositionalNames : \E defaults \in DefaultsOf("Pos") :
       \E tokens \in SeqsUpTo(RestTokens, MaxRest) :
         LET c == Command("c", name, "Pos", defaults, FALSE)
         IN  call' = [op |-> "parseCommandFlags", command |-> c, tokens |-> tokens,
                      res |-> parseCommandFlags("Pos", defaults, PositionalArgs(c).args,
                                                tokens, environ)]
  /\ UNCHANGED environ

\* commands.Run(context.TODO(), args)
CallRun ==
  /\ call = Idle
  /\ \E forest \in ForestNames :
       \E args \in {<<>>} \cup { <<c_exe>> \o rest : rest \in SeqsUpTo(RunTokens, MaxArgs - 1) } :
       \E res \in { Run(Forest(forest), Background, args,
                         [env |-> environ, reads |-> <<>>, path |-> <<>>], RunFuel) } :
         /\ call' = [op |-> "Run", forest |-> forest, args |-> args,
                     env0 |-> environ, res |-> res]
         /\ environ' = res.env

\* the call returns to its caller
Return ==
  /\ call # Idle
  /\ call' = Idle
  /\ UNCHANGED environ

NextFlags ==
  \/ OsSetenv(FlagEnvChoices)
  \/ OsUnsetenv(FlagEnvChoices)
  \/ CallUnmarshalFlags
  \/ Return

NextPos ==
  \/ OsSetenv(RunEnvChoices)
  \/ OsUnsetenv(RunEnvChoices)
  \/ CallParseCommandFlags
  \/ Return

NextRun ==
  \/ OsSetenv(RunEnvChoices)
  \/ OsUnsetenv(RunEnvChoices)
  \/ CallUnmarshalFlags
  \/ CallRun
  \/ Return

SpecFlags == Init /\ [][NextFlags]_vars

SpecPos == Init /\ [][NextPos]_vars

SpecRun == Init /\ [][NextRun]_vars

\* -------------------------------------------------------------- properties

\* what parseOne makes of one token: the flag name, and the value after "="
tokenFlag(s) ==
  IF Len(s) < 2 \/ s[1] # "-"
  THEN [name |-> <<>>, hasValue |-> FALSE, value |-> <<>>]
  ELSE LET name0 == From(s, IF s[2] = "-" THEN 3 ELSE 2)
           eq    == valueSep(name0)
       IN  IF eq = 0 THEN [name |-> name0, hasValue |-> FALSE, value |-> <<>>]
           ELSE [name |-> SubSeq(name0, 1, eq - 1), hasValue |-> TRUE,
                 value |-> From(name0, eq + 1)]

RECURSIVE splitAll(_)
\* the comma-separated parts of the values of all tokens, in encounter order
splitAll(tokens) ==
  IF tokens = <<>> THEN <<>>
  ELSE Split(tokenFlag(Head(tokens)).value, ",") \o splitAll(Tail(tokens))

\* every token is an occurrence name=value of the flag named name
allOccurrences(tokens, name) ==
  /\ tokens # <<>>
  /\ \A k \in 1..Len(tokens) :
       tokenFlag(tokens[k]).name = name /\ tokenFlag(tokens[k]).hasValue

\* the value an environment string has for a leaf kind, if it parses
envValue(kind, s) ==
  CASE kind = "string" -> [ok |-> TRUE, val |-> s]
    [] kind = "bool"   -> ParseBool(s)
    [] kind = "int"    -> ParseInt10(s)
    [] OTHER           -> [ok |-> FALSE, val |-> <<>>]

RECURSIVE nestsAgain(_, _)
\* the record type t, reached below the types of chain, is one of them or
\* nests one of them (or itself) through its tagged record fields
nestsAgain(t, chain) ==
  \/ t \in chain
  \/ \E i \in 1..NumField(t) :
       /\ StructFields(t)[i].kind = "struct"
       /\ StructFields(t)[i].flag # NoTag
       /\ nestsAgain(StructFields(t)[i].elem, chain \cup {t})

\* C1: UnmarshalFlags called with an empty token list while no environment
\* variable is present leaves every field of the destination equal to the
\* corresponding field of the defaults instance, list and map defaults included.
C1_DefaultsResolve ==
  ( /\ call.op = "UnmarshalFlags"
    /\ call.type \in {"Flags", "Pos", "Twice"}
    /\ call.tokens = <<>>
    /\ DOMAIN environ = {} )
  => /\ call.res.panic = NoPanic
     /\ call.res.err = NoErr
     /\ call.res.dest = call.defaults

\* C2: a leaf field whose declared environment variable is present and parses
\* for the field's kind resolves to the environment value when the tokens are
\* empty, and to the flag's value when the one token is an explicit flag for
\* the field.
C2_EnvThenFlag ==
  call.op = "UnmarshalFlags" =>
    \A i \in 1..NumField(call.type) :
      LET f  == StructFields(call.type)[i]
          e  == LookupEnv(environ, f.env)
          ev == envValue(f.kind, e.val)
          tf == tokenFlag(call.tokens[1])
          fv == valueSet(f.kind, <<>>, IF tf.hasValue THEN tf.value ELSE w_true)
      IN  ( /\ f.kind \in {"string", "bool", "int"}
            /\ f.flag # NoTag /\ f.env # NoTag
            /\ e.ok /\ ev.ok )
          => /\ call.tokens = <<>> =>
                  call.res.err = NoErr /\ call.res.dest[i] = ev.val
             /\ ( /\ Len(call.tokens) = 1
                  /\ tf.name = f.flag
                  /\ tf.hasValue \/ f.kind = "bool"
                  /\ fv.ok )
                => call.res.err = NoErr /\ call.res.dest[i] = fv.val

\* C3: when every token is an occurrence of one string-list flag, the field
\* resolves to the concatenation, in encounter order, of each occurrence's
\* value split on ",".
C3_ListAccumulates ==
  call.op = "UnmarshalFlags" =>
    \A i \in 1..NumField(call.type) :
      LET f == StructFields(call.type)[i]
      IN  (f.kind = "list" /\ f.flag # NoTag /\ allOccurrences(call.tokens, f.flag))
          => /\ call.res.err = NoErr
             /\ call.res.dest[i] = splitAll(call.tokens)

\* C4: when every token is an occurrence of one string-map flag, the field
\* resolves to the map that sends each key of the collected pairs to the value
\* of the last collected pair with that key.
C4_MapLastWins ==
  call.op = "UnmarshalFlags" =>
    \A i \in 1..NumField(call.type) :
      LET f     == StructFields(call.type)[i]
          parts == splitAll(call.tokens)
          pairs == [j \in 1..Len(parts) |-> mapEntry(parts[j])]
          last(k) == CHOOSE j \in 1..Len(pairs) :
                       pairs[j].key = k /\ \A l \in (j+1)..Len(pairs) : pairs[l].key # k
      IN  (f.kind = "map" /\ f.flag # NoTag /\ allOccurrences(call.tokens, f.flag))
          => /\ call.res.err = NoErr
             /\ call.res.dest[i] =
                  [k \in {pairs[j].key : j \in 1..Len(pairs)} |-> pairs[last(k)].value]

\* C5: the schema walk fails with the cycle error exactly when the record type
\* walked nests a type of its own recursion chain; a type used by two sibling
\* fields is walked twice without a failure.
C5_CycleExactly ==
  call.op = "UnmarshalFlags" =>
    /\ call.res.panic = "cycle in flag types" <=> nestsAgain(call.type, {})
    /\ call.type = "Twice" => call.res.panic = NoPanic

\* C5 witness: the walk of Twice has returned with the flags of both uses of Leaf
C5_SiblingsWalked ==
  /\ call.op = "UnmarshalFlags"
  /\ call.type = "Twice"
  /\ call.res.panic = NoPanic
  /\ call.res.names = << n_sub \o <<".">> \o n_file, n_peer \o <<".">> \o n_file >>

\* the positions of the entries of cs whose name is the token, letter case aside
matching(cs, token) ==
  { i \in 1..Len(cs) : ToLower(Name(cs[i])) = ToLower(token) }

\* C6: Run on a vector with fewer than two tokens, the empty one included,
\* returns the Usage result listing the name of every entry of the forest in
\* declaration order, and executes no command.
C6_ShortVectorUsage ==
  (call.op = "Run" /\ Len(call.args) < 2)
  => /\ call.res.kind = "usage"
     /\ call.res.usage = [i \in 1..Len(Forest(call.forest)) |-> Name(Forest(call.forest)[i])]
     /\ call.res.executed = <<>>

\* C7: expanding the file with env ["b=1", "x=a$b"] and args ["--str=$b"]
\* leaves b=1 and x=a1 in the environment, puts the expanded token --str=1
\* after the file's command, and the dispatched command's flag is bound to "1".
C7_FileEnvThenArgs ==
  (call.op = "Run" /\ call.forest = "A" /\ call.args = <<c_exe, c_atf1>>)
  => /\ Getenv(environ, e_b) = w_1
     /\ Getenv(environ, e_x) = <<"a", "1">>
     /\ call.res.args = <<c_exe, c_cmd, <<"-","-","s","t","r","=","1">> >>
     /\ call.res.kind = "ok"
     /\ call.res.executed = <<"cmd">>
     /\ call.res.flags[1] = w_1

\* the position in type t of the field tagged with the placeholder [p]
placeholderField(t, p) ==
  CHOOSE i \in 1..NumField(t) : StructFields(t)[i].flag = <<"[">> \o p \o <<"]">>

\* C8: for a command declaring distinct positional parameters p1..pn, each the
\* placeholder of a string or list field, called with enough tokens: every
\* parameter before the first list-typed one receives the token at its own
\* position; the first list-typed parameter receives all tokens from its
\* position to the end and no token remains; with no list-typed parameter the
\* tokens after the n-th remain.
C8_PositionalBinding ==
  call.op = "parseCommandFlags" =>
    LET ps      == PositionalArgs(call.command).args
        n       == Len(ps)
        fld(a)  == placeholderField("Pos", ps[a])
        kind(a) == StructFields("Pos")[fld(a)].kind
        lists   == { a \in 1..n : kind(a) = "list" }
        stop    == IF lists = {} THEN n + 1
                   ELSE CHOOSE a \in lists : \A b \in lists : a <= b
        ts      == call.tokens
    IN  ( /\ \A a, b \in 1..n : ps[a] = ps[b] => a = b
          /\ \A a \in 1..n : \E i \in 1..NumField("Pos") :
               /\ StructFields("Pos")[i].flag = <<"[">> \o ps[a] \o <<"]">>
               /\ StructFields("Pos")[i].kind \in {"string", "list"}
          /\ Len(ts) >= (IF stop <= n THEN stop ELSE n) )
        => /\ call.res.panic = NoPanic /\ call.res.err = NoErr
           /\ \A a \in 1..n : a < stop => call.res.updatedFlags[fld(a)] = ts[a]
           /\ stop <= n => /\ call.res.updatedFlags[fld(stop)] = SubSeq(ts, stop, Len(ts))
                           /\ call.res.remaining = <<>>
           /\ stop > n => call.res.remaining = SubSeq(ts, n + 1, Len(ts))

\* C8 witness: "x [file] [rest...]" called with a b c has bound file to "a"
\* and rest to ["b", "c"], with no token remaining
C8_FileAndRestBound ==
  /\ call.op = "parseCommandFlags"
  /\ call.command.name = c_xpos
  /\ call.tokens = <<w_a, w_b, w_c>>
  /\ call.res.updatedFlags[1] = w_a
  /\ call.res.updatedFlags[2] = <<w_b, w_c>>
  /\ call.res.remaining = <<>>

\* C9: when no file was expanded and Run dispatched to an entry of the top
\* level, that entry is the first one, in declaration order, whose name is the
\* command-position token, letter case aside.
C9_FirstMatchWins ==
  (call.op = "Run" /\ call.res.reads = <<>> /\ call.res.path # <<>>)
  => \A i \in matching(Forest(call.forest), call.args[2]) : call.res.path[1] <= i

\* C10: one Run reads at most one argument file and ends within the model's
\* recursion budget; after the expansion an "@" token at the command position
\* is looked up as a command name: "@g" from file f2 runs the command named
\* "@g", and "@f4" from file f4, naming no command, ends in Usage (which
\* panics in forest D, where a name is empty).
C10_OneExpansion ==
  call.op = "Run" =>
    /\ Len(call.res.reads) <= 1
    /\ call.res.kind # "diverged"
    /\ (call.forest = "A" /\ Len(call.args) = 2 /\ call.res.reads = <<f_f2>>)
         => call.res.args = <<c_exe, c_atg>> /\ call.res.executed = <<"at">>
    /\ (Len(call.args) >= 2 /\ call.args[2] = c_atf4)
         => /\ call.res.reads = <<f_f4>>
            /\ call.res.kind = IF call.forest = "D" THEN "panic" ELSE "usage"

\* C10 witness: the file f2 was read, its command "@g" took the command
\* position, and the command named "@g" was executed
C10_LiteralAfterFile ==
  /\ call.op = "Run"
  /\ call.res.reads = <<f_f2>>
  /\ call.res.args[2] = c_atg
  /\ call.res.argFile # <<>>
  /\ call.res.executed = <<"at">>

\* C11: after a Run that expanded the file named by the token at position
\* d + 2 (d parent names before it), the vector dispatched on is the tokens
\* 1..d+1 of the original, then the file's command tokens, then the file's args
\* each expanded against the environment the file's env list left, then the
\* original tokens after the @file token; its length is the original length
\* minus one plus the numbers of command and args tokens.
C11_MergedVector ==
  ( /\ call.op = "Run"
    /\ Len(call.res.reads) = 1
    /\ readArgFile(call.res.reads[1]).err = NoErr
    /\ call.res.kind \in {"ok", "usage", "error"} )
  => LET file == readArgFile(call.res.reads[1]).file
         at   == CHOOSE k \in 2..Len(call.args) :
                   /\ HasPrefix(call.args[k], <<"@">>)
                   /\ \A l \in 2..(k-1) : ~HasPrefix(call.args[l], <<"@">>)
         exp  == [j \in 1..Len(file.args) |-> ExpandEnv(file.args[j], environ)]
     IN  /\ call.res.args = SubSeq(call.args, 1, at - 1) \o file.command \o exp
                              \o SubSeq(call.args, at + 1, Len(call.args))
         /\ Len(call.res.args) = Len(call.args) - 1 + Len(file.command) + Len(file.args)

\* C11 witness: "exe @f1 a" was rewritten to "exe cmd --str=1 a"
C11_TailKept ==
  /\ call.op = "Run"
  /\ call.args = <<c_exe, c_atf1, w_a>>
  /\ call.res.reads = <<f_f1>>
  /\ call.res.args = <<c_exe, c_cmd, <<"-","-","s","t","r","=","1">>, w_a>>

RECURSIVE descend(_, _, _)
\* the forest reached from cs, d group names deep, by following at every level
\* the first CommandGroup whose name is the command-position token (letter
\* case aside) for as long as there is one
descend(cs, tokens, d) ==
  LET groups == { i \in matching(cs, IF Len(tokens) < d + 2 THEN <<>> ELSE tokens[d + 2]) :
                    cs[i].kind = "group" }
  IN  IF Len(tokens) < d + 2 \/ groups = {} THEN [cs |-> cs, depth |-> d]
      ELSE descend(cs[CHOOSE i \in groups : \A j \in groups : i <= j].commands, tokens, d + 1)

C13_ExecuteAfterValidation ==
  call.op = "Run" =>
    /\ Len(call.res.executed) <= 1
    /\ (call.res.kind \notin {"ok", "error"} \/ call.res.args = <<>>) =>
          call.res.executed = <<>>
    /\ (call.res.kind \in {"ok", "error"} /\ call.res.args # <<>>) =>
          LET end == descend(Forest(call.forest), call.res.args, 0)
              c   == end.cs[call.res.path[end.depth + 1]]
              p   == parseCommandFlags(c.type, c.defaults, call.res.positional,
                                       From(call.res.args, end.depth + 3), call.res.env)
              ok  == /\ p.panic = NoPanic
                     /\ p.err = NoErr
                     /\ ValidateStructFields(c.type, p.updatedFlags)
          IN  /\ ok => /\ call.res.executed = <<c.id>>
                       /\ call.res.flags = p.updatedFlags
                       /\ call.res.remaining = p.remaining
                       /\ call.res.kind = "error" <=> c.fails
              /\ ~ok => /\ call.res.executed = <<>>
                        /\ call.res.kind = "error"
                        /\ p.err # NoErr => call.res.detail = p.err

\* C13 witness: "exe X sub" in forest B parses, binds no [file], fails the
\* required rule and executes nothing
C13_ValidationStops ==
  /\ call.op = "Run"
  /\ call.forest = "B"
  /\ call.args = <<c_exe, c_X, c_sub>>
  /\ call.res.kind = "error"
  /\ call.res.detail = "validation failed"
  /\ call.res.executed = <<>>

\* C14: when the first token that fs.Parse does not accept (every one before
\* it being an accepted occurrence of a registered flag) names a flag that is
\* not registered, or gives a bool or int flag a value that does not parse,
\* UnmarshalFlags returns an error and no tokens, and the destination record is
\* as it was before the call although earlier tokens were accepted; and when
\* UnmarshalFlags fails on the tokens of the command Run dispatched to, Run
\* returns that error and the command is not executed.
C14_ErrorLeavesRecord ==
  LET parses(kind, v) == CASE kind = "bool" -> ParseBool(v).ok
                           [] kind = "int"  -> ParseInt0(v).ok
                           [] OTHER         -> TRUE
      good(flags, s) ==
        LET f == tokenFlag(s)
            j == flagIndex(flags, f.name)
        IN  /\ j # 0
            /\ IF flags[j].kind = "bool" THEN ~f.hasValue \/ parses("bool", f.value)
               ELSE f.hasValue /\ parses(flags[j].kind, f.value)
      bad(flags, s) ==
        LET f == tokenFlag(s)
            j == flagIndex(flags, f.name)
        IN  /\ f.name # <<>>
            /\ \/ j = 0
               \/ f.hasValue /\ ~parses(flags[j].kind, f.value)
      rejected(flags, tokens) ==
        \E k \in 1..Len(tokens) :
          /\ bad(flags, tokens[k])
          /\ \A j \in 1..(k - 1) : good(flags, tokens[j])
  IN  /\ (call.op = "UnmarshalFlags" /\ call.res.panic = NoPanic) =>
            LET col == collectStructFlags(EmptyCollected, <<>>, call.type,
                                          call.defaults, <<>>, environ)
            IN  rejected(col.flags, call.tokens) =>
                  /\ call.res.err # NoErr
                  /\ call.res.dest = Zero(call.type)
                  /\ call.res.args = <<>>
      /\ (call.op = "Run" /\ call.res.kind \in {"ok", "error"} /\ call.res.args # <<>>) =>
            LET end    == descend(Forest(call.forest), call.res.args, 0)
                c      == end.cs[call.res.path[end.depth + 1]]
                tokens == From(call.res.args, end.depth + 3)
                col    == collectStructFlags(EmptyCollected, <<>>, c.type,
                                             c.defaults, <<>>, call.res.env)
                u      == UnmarshalFlags(c.type, c.defaults, tokens, Zero(c.type),
                                         call.res.env)
            IN  (col.panic = NoPanic /\ rejected(col.flags, tokens)) =>
                  /\ u.err # NoErr
                  /\ u.dest = Zero(c.type)
                  /\ call.res.kind = "error"
                  /\ call.res.detail = u.err
                  /\ call.res.executed = <<>>

\* C14 witness: -[num]=3 is accepted, -[num]=z is not, and the record is
\* still the zero record
C14_GoodThenBad ==
  /\ call.op = "UnmarshalFlags"
  /\ call.type = "Pos"
  /\ call.tokens = <<t_num3, t_numz>>
  /\ call.res.err = "invalid value"
  /\ call.res.dest = Zero("Pos")

\* C15: when the first token that is no flag (shorter than two characters, or
\* not starting with "-") comes after well-formed occurrences of flags the
\* record declares (--int=1 before arg1), UnmarshalFlags returns without error
\* exactly the tokens from that token to the end, in order, whatever they
\* start with.
C15_StopsAtFirstNonFlag ==
  (call.op = "UnmarshalFlags" /\ call.res.panic = NoPanic) =>
    LET fields == StructFields(call.type)
        declared(s) ==
          LET f == tokenFlag(s)
          IN  \E i \in 1..NumField(call.type) :
                /\ fields[i].flag = f.name
                /\ f.name # <<>>
                /\ CASE fields[i].kind = "bool"   -> ~f.hasValue \/ ParseBool(f.value).ok
                     [] fields[i].kind = "int"    -> f.hasValue /\ ParseInt0(f.value).ok
                     [] fields[i].kind = "struct" -> FALSE
                     [] OTHER                     -> f.hasValue
    IN  \A k \in 1..Len(call.tokens) :
          ( /\ Len(call.tokens[k]) < 2 \/ call.tokens[k][1] # "-"
            /\ \A j \in 1..(k - 1) : declared(call.tokens[j]) )
          => /\ call.res.err = NoErr
             /\ call.res.args = From(call.tokens, k)

RECURSIVE declaredFlags(_, _, _, _)
\* the flags the tags of record type t declare, from field i on, in walk
\* order: a leaf field's name under prefix, a record field's children under
\* the prefix its tag gives them; each with the place of its field
declaredFlags(t, prefix, path, i) ==
  IF i > NumField(t) THEN <<>>
  ELSE LET f    == StructFields(t)[i]
           info == readFlagInfo(f, prefix)
           here == IF ~info.ok \/ f.kind = "interface" THEN <<>>
                   ELSE IF f.kind = "struct"
                   THEN declaredFlags(f.elem, childPrefix(info.name), path \o <<i>>, 1)
                   ELSE << [name |-> info.name, path |-> path \o <<i>>, kind |-> f.kind] >>
       IN  here \o declaredFlags(t, prefix, path, i + 1)

\* C16: the flags registered by one walk have pairwise different names, and a
\* record type whose tags declare one flag name twice (a squashed record with
\* a child named like a flag of its parent) makes the walk fail with the fatal
\* error "flag redefined".
C16_NoSharedName ==
  call.op = "UnmarshalFlags" =>
    LET d == declaredFlags(call.type, <<>>, <<>>, 1)
    IN  /\ call.res.panic = NoPanic =>
              \A i, j \in 1..Len(call.res.names) :
                 call.res.names[i] = call.res.names[j] => i = j
        /\ (\E i, j \in 1..Len(d) : i # j /\ d[i].name = d[j].name) =>
              call.res.panic = "flag redefined"

\* C17: every leaf flag declared below a nested record field is registered
\* under the name the prefixes give it (the parent's prefix alone below a
\* squash field, the parent's prefix, the field's flag name and "." otherwise),
\* and an explicit value for a string flag of that name lands in the child
\* field of the destination.
C17_NestedNames ==
  (call.op = "UnmarshalFlags" /\ call.res.panic = NoPanic) =>
    LET d == declaredFlags(call.type, <<>>, <<>>, 1)
    IN  \A k \in 1..Len(d) :
          Len(d[k].path) = 2 =>
            /\ \E j \in 1..Len(call.res.names) : call.res.names[j] = d[k].name
            /\ ( /\ Len(call.tokens) = 1
                 /\ tokenFlag(call.tokens[1]).name = d[k].name
                 /\ tokenFlag(call.tokens[1]).hasValue
                 /\ d[k].kind = "string" )
               => /\ call.res.err = NoErr
                  /\ call.res.dest[d[k].path[1]][d[k].path[2]]
                       = tokenFlag(call.tokens[1]).value

\* C18: a bool or int field whose declared environment variable is present
\* with a value that does not parse for the field's kind resolves, without
\* error, to the field of the defaults instance when the tokens are empty and
\* to the flag's value when the one token is an explicit flag for the field.
C18_BadEnvIgnored ==
  call.op = "UnmarshalFlags" =>
    \A i \in 1..NumField(call.type) :
      LET f  == StructFields(call.type)[i]
          e  == LookupEnv(environ, f.env)
          tf == tokenFlag(call.tokens[1])
          fv == valueSet(f.kind, <<>>, IF tf.hasValue THEN tf.value ELSE w_true)
      IN  ( /\ f.kind \in {"bool", "int"}
            /\ f.flag # NoTag /\ f.env # NoTag
            /\ e.ok /\ ~envValue(f.kind, e.val).ok )
          => /\ call.tokens = <<>> =>
                  call.res.err = NoErr /\ call.res.dest[i] = call.defaults[i]
             /\ ( /\ Len(call.tokens) = 1
                  /\ tf.name = f.flag
                  /\ tf.hasValue \/ f.kind = "bool"
                  /\ fv.ok )
                => call.res.err = NoErr /\ call.res.dest[i] = fv.val

C20_NamesNonEmpty ==
  call.op = "Run" =>
    LET below(S) == UNION { { g.commands[i] : i \in 1..Len(g.commands) } :
                            g \in { n \in S : n.kind = "group" } }
        top      == { Forest(call.forest)[i] : i \in 1..Len(Forest(call.forest)) }
    IN  \A n \in top \cup below(top) \cup below(below(top)) :
          n.kind # "panic" => Name(n) # <<>>

\* C21: the remaining arguments that parseCommandFlags hands to Run are a
\* suffix of the flag remainder, in order, and the tokens before it are
\* exactly the bound ones: each went, at its own position, into the string
\* field of the positional name at that position (a later token for the same
\* name replacing an earlier one), or they are followed by the tokens the
\* list field of the next name took, all of them to the end.
C21_RemainderConserved ==
  (call.op = "parseCommandFlags" /\ call.res.panic = NoPanic /\ call.res.err = NoErr) =>
    LET ps  == PositionalArgs(call.command).args
        ts  == call.res.afterFlags
        rem == call.res.remaining
        k   == Len(ts) - Len(rem)
        fld(a) == positionalField("Pos", ps[a])
        last(a, s) == CHOOSE b \in a..s :
                        ps[b] = ps[a] /\ \A c \in (b + 1)..s : ps[c] # ps[a]
        strings(s) == \A a \in 1..s :
                        /\ fld(a) # 0
                        /\ StructFields("Pos")[fld(a)].kind = "string"
                        /\ call.res.updatedFlags[fld(a)] = ts[last(a, s)]
    IN  /\ ts = call.tokens
        /\ k >= 0
        /\ rem = From(ts, k + 1)
        /\ \E s \in 0..k :
              /\ s <= Len(ps)
              /\ strings(s)
              /\ \/ s = k
                 \/ /\ s < Len(ps)
                    /\ fld(s + 1) # 0
                    /\ StructFields("Pos")[fld(s + 1)].kind = "list"
                    /\ call.res.updatedFlags[fld(s + 1)] = From(ts, s + 1)
                    /\ k = Len(ts)

\* C21 witness: "x [file]" called with a b c bound a and left b c
C21_TwoRemain ==
  /\ call.op = "parseCommandFlags"
  /\ PositionalArgs(call.command).args = << <<"f","i","l","e">> >>
  /\ call.tokens = <<w_a, w_b, w_c>>
  /\ call.res.updatedFlags[1] = w_a
  /\ call.res.remaining = <<w_b, w_c>>

\* C22: for a command declaring distinct positional parameters p1..pn, each
\* the placeholder of a string or list field, called with fewer than n tokens
\* (none included): binding ends without error or panic, the tokens there are
\* go to the leading parameters (a list-typed one taking all that are left),
\* every parameter no token reached keeps the value its field has in the
\* defaults instance, and no argument remains.
C22_FewerTokens ==
  call.op = "parseCommandFlags" =>
    LET ps      == PositionalArgs(call.command).args
        n       == Len(ps)
        fld(a)  == placeholderField("Pos", ps[a])
        kind(a) == StructFields("Pos")[fld(a)].kind
        ts      == call.tokens
        m       == Len(ts)
        lists   == { a \in 1..m : kind(a) = "list" }
        stop    == IF lists = {} THEN m + 1
                   ELSE CHOOSE a \in lists : \A b \in lists : a <= b
    IN  ( /\ \A a, b \in 1..n : ps[a] = ps[b] => a = b
          /\ \A a \in 1..n : \E i \in 1..NumField("Pos") :
               /\ StructFields("Pos")[i].flag = <<"[">> \o ps[a] \o <<"]">>
               /\ StructFields("Pos")[i].kind \in {"string", "list"}
          /\ m < n )
        => /\ call.res.panic = NoPanic /\ call.res.err = NoErr
           /\ \A a \in 1..m : a < stop => call.res.updatedFlags[fld(a)] = ts[a]
           /\ stop <= m => call.res.updatedFlags[fld(stop)] = SubSeq(ts, stop, m)
           /\ \A a \in 1..n : (a > m \/ a > stop) =>
                 call.res.updatedFlags[fld(a)] = call.command.defaults[fld(a)]
           /\ call.res.remaining = <<>>

\* C23: after a walk that did not panic, every leaf flag the tags declare under
\* a name that is no bracketed placeholder, at top level or below a nested
\* record field, is registered exactly once under that name; and a field
\* without a flag tag has the zero value in the destination whatever the
\* tokens were.
C23_OrdinaryFlagsRegistered ==
  (call.op = "UnmarshalFlags" /\ call.res.panic = NoPanic) =>
    LET d == declaredFlags(call.type, <<>>, <<>>, 1)
    IN  /\ \A k \in 1..Len(d) :
              readPositionalArg(d[k].name) = <<>> =>
                Cardinality({ j \in 1..Len(call.res.names) :
                                call.res.names[j] = d[k].name }) = 1
        /\ \A i \in 1..NumField(call.type) :
              StructFields(call.type)[i].flag = NoTag =>
                call.res.dest[i] = Zero(call.type)[i]

\* C24: a Run whose argument-file expansion fails returns an error value and
\* dispatches to no command: when the file cannot be read or parsed the
\* process environment is as the call found it, and when an entry of the
\* file's env list cannot be assigned (it has no "=", or its key is empty)
\* the failure comes back as a returned error, never as a panic.
C24_ExpansionFailureReturned ==
  (call.op = "Run" /\ call.res.reads # <<>>) =>
    LET r      == readArgFile(call.res.reads[1])
        kv(j)  == SplitN2(r.file.env[j], "=")
        bad(j) == Len(kv(j)) < 2 \/ kv(j)[1] = <<>>
    IN  /\ r.err # NoErr =>
              /\ call.res.kind = "error"
              /\ call.res.executed = <<>>
              /\ environ = call.env0
        /\ (r.err = NoErr /\ \E j \in 1..Len(r.file.env) : bad(j)) =>
              /\ call.res.kind = "error"
              /\ call.res.detail = "failed to apply environment variable"
              /\ call.res.executed = <<>>

\* C25: the argument file a Run reads is the one the command-position token
\* names: the first token after the program name that starts with "@" (the
\* tokens before it are the group names passed through) spells, after its
\* "@", the path that was read, capital letters included.
C25_FileNamedAsWritten ==
  (call.op = "Run" /\ call.res.reads # <<>>) =>
    \E k \in 2..Len(call.args) :
        /\ HasPrefix(call.args[k], <<"@">>)
        /\ \A l \in 2..(k - 1) : ~HasPrefix(call.args[l], <<"@">>)
        /\ call.res.reads[1] = Tail(call.args[k])

RECURSIVE groupsOn(_, _)
\* how many of the entries Run dispatched to, level after level, are groups:
\* the number of re-entries of Run through t.Commands().Run
groupsOn(cs, path) ==
  IF path = <<>> \/ cs[Head(path)].kind # "group" THEN 0
  ELSE 1 + groupsOn(cs[Head(path)].commands, Tail(path))

\* C26: every Run ends without using up the recursion budget: it re-enters
\* itself at most once through an argument-file expansion, also when the file
\* names itself or another file at its command position, and once per group
\* level, and the group levels it descends are fewer than the tokens of the
\* longest vector it worked on (the call's, or the one merged with the file's
\* command and args).
C26_RunTerminates ==
  call.op = "Run" =>
    LET r      == IF call.res.reads = <<>> THEN readArgFile(<<>>)
                  ELSE readArgFile(call.res.reads[1])
        merged == IF call.res.reads = <<>> \/ r.err # NoErr THEN Len(call.args)
                  ELSE Len(call.args) - 1 + Len(r.file.command) + Len(r.file.args)
        longest  == IF merged > Len(call.args) THEN merged ELSE Len(call.args)
        levels   == groupsOn(Forest(call.forest), call.res.path)
        expanded == Cardinality({ k \in 1..Len(call.res.reads) :
                                    readArgFile(call.res.reads[k]).err = NoErr })
    IN  /\ call.res.kind \in {"ok", "error", "usage", "panic"}
        /\ expanded <= 1
        /\ levels > 0 => levels < longest
        /\ Len(call.res.path) <= levels + 1
        /\ expanded + levels < RunFuel
        /\ (call.res.reads # <<>> /\ r.err = NoErr /\ r.file.command # <<>>
            /\ HasPrefix(r.file.command[1], <<"@">>)) =>
              call.res.reads = <<call.res.reads[1]>>

\* C26 witness: one group down, the file f4 whose command is "@f4" was read
\* once and the Run ended in Usage
C26_SelfNamingFileEnds ==
  /\ call.op = "Run"
  /\ call.forest = "A"
  /\ call.args = <<c_exe, c_more, c_atf4>>
  /\ call.res.reads = <<f_f4>>
  /\ call.res.path = <<3>>
  /\ call.res.kind = "usage"

====
